---- MODULE Spec2Model ----
(***************************************************************************)
(* Model of desadv_vin.py: validate_data and generate_disadv, the compiler *)
(* of a shipment record into an EDIFACT DISADV message.                    *)
(*                                                                         *)
(* Text is a sequence of string tokens.  A literal part of an f-string is  *)
(* one token ("LIN+"); an interpolated value is the value's characters,    *)
(* one token each (<<"1","0">>).  A line of the message is such a          *)
(* sequence, the message is the lines joined by the token "\n".            *)
(*                                                                         *)
(* A dict is a function whose DOMAIN is the dict's keys, so that           *)
(* `"k" in d` is "k" \in DOMAIN d.  The four validated fields carry their  *)
(* Python type ([type, val]) because validate_data asks isinstance(list).  *)
(*                                                                         *)
(* total_weight is a Python float.  It is held here in hundredths of a     *)
(* kilogram; the weights the model feeds in (2.5, 0.25) and their          *)
(* multiples are exact in binary floating point, so the float arithmetic   *)
(* of the code and the integer arithmetic here agree on them.              *)
(***************************************************************************)
EXTENDS Integers, Sequences, FiniteSets, TLC

VARIABLES data, pc, edifact, p, index, total_weight, result, file, log

vars == <<data, pc, edifact, p, index, total_weight, result, file, log>>

(* ------------------------------ bounds --------------------------------- *)

MaxParties == 2

MaxItems == 2

(* ------------------------------- text ---------------------------------- *)

DigitChars == <<"0", "1", "2", "3", "4", "5", "6", "7", "8", "9">>

IsDigit(c) == \E d \in 1..10 : DigitChars[d] = c

DigitVal(c) == (CHOOSE d \in 1..10 : DigitChars[d] = c) - 1

AllDigits(s) == \A k \in 1..Len(s) : IsDigit(s[k])

RECURSIVE DigitsValue(_)
DigitsValue(s) ==
    IF Len(s) = 0 THEN 0
    ELSE 10 * DigitsValue(SubSeq(s, 1, Len(s) - 1)) + DigitVal(s[Len(s)])

\* str(n) of a non-negative int, as the f-string formats it
RECURSIVE IntToStr(_)
IntToStr(n) ==
    IF n < 10 THEN <<DigitChars[n + 1]>>
    ELSE IntToStr(n \div 10) \o <<DigitChars[(n % 10) + 1]>>

\* int(s): of the strings fed in, it succeeds on the non-empty runs of
\* decimal digits (no sign, blank or underscore occurs in them)
IntOk(s) == Len(s) > 0 /\ AllDigits(s)

IntValue(s) == DigitsValue(s)

DotAt(s) == IF \E k \in 1..Len(s) : s[k] = "."
            THEN CHOOSE k \in 1..Len(s) : s[k] = "." /\ \A j \in 1..(k - 1) : s[j] # "."
            ELSE 0

IntPart(s) == IF DotAt(s) = 0 THEN s ELSE SubSeq(s, 1, DotAt(s) - 1)

FracPart(s) == IF DotAt(s) = 0 THEN <<>> ELSE SubSeq(s, DotAt(s) + 1, Len(s))

\* float(s): of the strings fed in, it succeeds on digits with at most one
\* decimal point and at least one digit (no sign or exponent occurs in them)
FloatOk(s) ==
    /\ AllDigits(IntPart(s))
    /\ AllDigits(FracPart(s))
    /\ Len(IntPart(s)) + Len(FracPart(s)) > 0

\* float(s) in hundredths, for s with at most two decimals
FloatValue(s) ==
    LET f == FracPart(s)
        f2 == IF Len(f) = 0 THEN <<"0", "0">>
              ELSE IF Len(f) = 1 THEN f \o <<"0">>
              ELSE SubSeq(f, 1, 2)
    IN 100 * DigitsValue(IntPart(s)) + DigitsValue(f2)

\* f"{x:.2f}" of a non-negative x held in hundredths
Format2f(h) ==
    IntToStr(h \div 100) \o <<".">>
        \o <<DigitChars[((h % 100) \div 10) + 1], DigitChars[(h % 10) + 1]>>

RECURSIVE Join(_)
Join(lines) ==
    IF Len(lines) = 0 THEN <<>>
    ELSE IF Len(lines) = 1 THEN lines[1]
    ELSE lines[1] \o <<"\n">> \o Join(Tail(lines))

(* ----------------------------- segments -------------------------------- *)

UNA == <<"UNA:+.? '">>

UNH(ref) == <<"UNH+">> \o ref \o <<"+DISADV:D:96A:UN'">>

BGM(ship) == <<"BGM+351+">> \o ship \o <<"+9'">>

DTM(date) == <<"DTM+137:">> \o date \o <<":102'">>

NAD_swapped(party) ==
    <<"NAD+">> \o party.id \o <<"+">> \o party.qualifier \o <<"::91'">>

NAD(party) ==
    <<"NAD+">> \o party.qualifier \o <<"+">> \o party.id \o <<"::91'">>

TDT(transport) ==
    <<"TDT+20+">> \o transport.carrier \o <<"+">> \o transport.mode \o <<"'">>

LIN(n, item) ==
    <<"LIN+">> \o IntToStr(n) \o <<"++">> \o item.product_code \o <<":EN'">>

IMD(item) == <<"IMD+F++:::">> \o item.description \o <<"'">>

QTY(item) == <<"QTY+12:">> \o item.quantity \o <<":EA'">>

MEA(w) == <<"MEA+WT+AAA:">> \o w \o <<":KG'">>

GIN(item) == <<"GIN+BJ+">> \o item.vin \o <<"'">>

UNT(count, ref) == <<"UNT+">> \o IntToStr(count) \o <<"+">> \o ref \o <<"'">>

(* ---------------------------- validate_data ---------------------------- *)

PyStr(s) == [type |-> "str", val |-> s]

PyList(s) == [type |-> "list", val |-> s]

NoError == <<>>

required_fields_swapped == <<"message_ref", "shipment_number", "items", "parties">>

required_fields == <<"message_ref", "shipment_number", "parties", "items">>

\* `not v` for a str or a list
Falsy_never(v) == FALSE

Falsy(v) == Len(v.val) = 0

RECURSIVE ValidateFrom(_, _)
ValidateFrom(d, k) ==
    IF k > Len(required_fields)
    THEN IF d["items"].type # "list" \/ Len(d["items"].val) = 0
         THEN <<"DISADV must contain at least one item.">>
         ELSE NoError
    ELSE IF required_fields[k] \notin DOMAIN d \/ Falsy(d[required_fields[k]])
         THEN <<"Missing required field: ", required_fields[k]>>
         ELSE ValidateFrom(d, k + 1)

\* the message of the ValueError validate_data raises, NoError when it returns
validate_data(d) == ValidateFrom(d, 1)

(* ------------------------------- inputs -------------------------------- *)

REF == <<"6", "5">>

SHIP == <<"S", "1">>

PartyBY == [qualifier |-> <<"B", "Y">>, id |-> <<"1">>]

PartySU == [qualifier |-> <<"S", "U">>, id |-> <<"2">>]

PartyNoId == [qualifier |-> <<"C", "A">>]

PartyNoQualifier == [id |-> <<"3">>]

PartyVariants == {PartyBY, PartySU, PartyNoId, PartyNoQualifier}

PCODE == <<"A", "1">>

DESC == <<"P", "a">>

VIN == <<"V", "7">>

ItemPlain == [product_code |-> PCODE, description |-> DESC, quantity |-> <<"2">>]

ItemWeight ==
    [product_code |-> PCODE, description |-> DESC, quantity |-> <<"1", "0">>,
     weight |-> <<"2", ".", "5">>]

ItemWeightVin ==
    [product_code |-> PCODE, description |-> DESC, quantity |-> <<"3">>,
     weight |-> <<"0", ".", "2", "5">>, vin |-> VIN]

ItemVin ==
    [product_code |-> PCODE, description |-> DESC, quantity |-> <<"2">>, vin |-> VIN]

ItemNoProductCode ==
    [description |-> DESC, quantity |-> <<"2">>, weight |-> <<"2", ".", "5">>,
     vin |-> VIN]

ItemNoDescription ==
    [product_code |-> PCODE, quantity |-> <<"2">>, weight |-> <<"2", ".", "5">>]

ItemNoQuantity ==
    [product_code |-> PCODE, description |-> DESC, weight |-> <<"2", ".", "5">>,
     vin |-> VIN]

\* a quantity that is not a number is never parsed when no weight is declared
ItemBadQuantity ==
    [product_code |-> PCODE, description |-> DESC, quantity |-> <<"x">>]

ItemBadQuantityWeight ==
    [product_code |-> PCODE, description |-> DESC, quantity |-> <<"x">>,
     weight |-> <<"2", ".", "5">>]

ItemBadWeight ==
    [product_code |-> PCODE, description |-> DESC, quantity |-> <<"2">>,
     weight |-> <<"h", "e", "a", "v", "y">>, vin |-> VIN]

ItemVariants ==
    {ItemPlain, ItemWeight, ItemWeightVin, ItemVin, ItemNoProductCode,
     ItemNoDescription, ItemNoQuantity, ItemBadQuantity, ItemBadQuantityWeight,
     ItemBadWeight}

TransportFull == [mode |-> <<"3", "0">>, carrier |-> <<"D", "H", "L">>]

TransportNoCarrier == [mode |-> <<"3", "0">>]

TransportNoMode == [carrier |-> <<"D", "H", "L">>]

\* datetime.datetime.now().strftime('%Y%m%d')
Dates == {<<"2", "0", "2", "6", "1", "1", "0", "2">>,
          <<"2", "0", "2", "6", "1", "1", "0", "3">>}

SeqUpTo(S, n) == UNION {[1..k -> S] : k \in 1..n}

Restrict(f, K) == [k \in K |-> f[k]]

RequiredKeys == {"message_ref", "shipment_number", "parties", "items"}

\* records in which each required field is absent, empty or well formed, and
\* items may also be a string instead of a list
ValidationRecords ==
    { Restrict([message_ref |-> ref, shipment_number |-> ship,
                parties |-> parties, items |-> items], K) :
        K \in SUBSET RequiredKeys,
        ref \in {PyStr(<<>>), PyStr(REF)},
        ship \in {PyStr(<<>>), PyStr(SHIP)},
        parties \in {PyList(<<>>), PyList(<<PartyBY>>)},
        items \in {PyList(<<>>), PyList(<<ItemWeight>>), PyStr(<<"x">>)} }

WithTransport(d) ==
    {d} \cup { [k \in DOMAIN d \cup {"transport"} |->
                    IF k = "transport" THEN t ELSE d[k]] :
               t \in {TransportFull, TransportNoCarrier, TransportNoMode} }

\* complete records over every list of parties
PartyRecords ==
    UNION { WithTransport([message_ref |-> PyStr(REF), shipment_number |-> PyStr(SHIP),
                           parties |-> PyList(parties), items |-> PyList(items)]) :
            parties \in SeqUpTo(PartyVariants, MaxParties),
            items \in {<<ItemPlain>>, <<ItemNoProductCode, ItemWeightVin>>} }

\* complete records over every list of items
ItemRecords ==
    UNION { WithTransport([message_ref |-> PyStr(REF), shipment_number |-> PyStr(SHIP),
                           parties |-> PyList(parties), items |-> PyList(items)]) :
            parties \in {<<PartyBY>>, <<PartyNoId, PartySU>>},
            items \in SeqUpTo(ItemVariants, MaxItems) }

NoFile == <<"<no file>">>

NoResult == <<"<no result>">>

Init ==
    /\ data \in ValidationRecords \cup PartyRecords \cup ItemRecords
    /\ pc = "validate"
    /\ edifact = <<>>
    /\ p = 0
    /\ index = 0
    /\ total_weight = 0
    /\ result = NoResult
    /\ file = NoFile
    /\ log = <<>>

(* --------------------------- generate_disadv --------------------------- *)

\* lines 19-25: validate, and on a ValueError log it and return ""
Validate ==
    /\ pc = "validate"
    /\ IF validate_data(data) # NoError
       THEN /\ log' = Append(log, <<"ERROR">> \o validate_data(data))
            /\ result' = <<>>
            /\ pc' = "returned"
       ELSE /\ log' = log \o << <<"INFO", "Data validation passed.">>,
                                <<"INFO", "Generating DISADV message...">> >>
            /\ result' = result
            /\ pc' = "header"
    /\ UNCHANGED <<data, edifact, p, index, total_weight, file>>

\* lines 27-34: UNA, UNH, BGM and DTM with today's date
Header ==
    /\ pc = "header"
    /\ \E current_date \in Dates :
         edifact' = <<UNA, UNH(data["message_ref"].val),
                      BGM(data["shipment_number"].val), DTM(current_date)>>
    /\ p' = 1
    /\ pc' = "parties"
    /\ UNCHANGED <<data, index, total_weight, result, file, log>>

PartyInvalid(party) == "qualifier" \notin DOMAIN party \/ "id" \notin DOMAIN party

\* lines 36-40: one pass of the loop over data['parties']
PartyStep ==
    /\ pc = "parties"
    /\ p <= Len(data["parties"].val)
    /\ LET party == data["parties"].val[p] IN
         IF PartyInvalid(party)
         THEN /\ log' = Append(log, <<"WARNING", "Skipping invalid NAD entry">>)
              /\ edifact' = edifact
         ELSE /\ edifact' = Append(edifact, NAD(party))
              /\ log' = log
    /\ p' = p + 1
    /\ pc' = IF p = Len(data["parties"].val) THEN "transport" ELSE "parties"
    /\ UNCHANGED <<data, index, total_weight, result, file>>

TransportLines(d) ==
    IF "transport" \in DOMAIN d
    THEN IF "mode" \in DOMAIN d["transport"] /\ "carrier" \in DOMAIN d["transport"]
         THEN <<TDT(d["transport"])>>
         ELSE <<>>
    ELSE <<>>

\* lines 42-47: the optional TDT, then total_weight = 0.0
Transport ==
    /\ pc = "transport"
    /\ edifact' = edifact \o TransportLines(data)
    /\ total_weight' = 0
    /\ index' = 1
    /\ pc' = "items"
    /\ UNCHANGED <<data, p, result, file, log>>

ItemIncomplete(item) ==
    \/ "product_code" \notin DOMAIN item
    \/ "description" \notin DOMAIN item
    \/ "quantity" \notin DOMAIN item

ItemLines_ginFirst(n, item) ==
    IF ItemIncomplete(item) THEN <<>>
    ELSE <<LIN(n, item), IMD(item), QTY(item)>>
         \o (IF "vin" \in DOMAIN item THEN <<GIN(item)>> ELSE <<>>)
         \o (IF "weight" \in DOMAIN item THEN <<MEA(item.weight)>> ELSE <<>>)

ItemLines_vinBeforeSkip(n, item) ==
    IF ItemIncomplete(item)
    THEN IF "vin" \in DOMAIN item THEN <<GIN(item)>> ELSE <<>>
    ELSE <<LIN(n, item), IMD(item), QTY(item)>>
         \o (IF "weight" \in DOMAIN item THEN <<MEA(item.weight)>> ELSE <<>>)
         \o (IF "vin" \in DOMAIN item THEN <<GIN(item)>> ELSE <<>>)

\* lines 49-59: the segments one item appends when no conversion raises
ItemLines(n, item) ==
    IF ItemIncomplete(item) THEN <<>>
    ELSE <<LIN(n, item), IMD(item), QTY(item)>>
         \o (IF "weight" \in DOMAIN item THEN <<MEA(item.weight)>> ELSE <<>>)
         \o (IF "vin" \in DOMAIN item THEN <<GIN(item)>> ELSE <<>>)

\* line 57 raises ValueError when float(weight) or int(quantity) does
ItemRaises(item) ==
    /\ ~ItemIncomplete(item)
    /\ "weight" \in DOMAIN item
    /\ (~FloatOk(item.weight) \/ ~IntOk(item.quantity))

WeightContribution_noQuantity(item) == FloatValue(item.weight)

\* line 57: float(item["weight"]) * int(item["quantity"])
WeightContribution(item) == FloatValue(item.weight) * IntValue(item.quantity)

\* lines 48-59: one pass of the loop over enumerate(data['items'], start=1)
ItemStep ==
    /\ pc = "items"
    /\ index <= Len(data["items"].val)
    /\ LET item == data["items"].val[index] IN
         IF ItemIncomplete(item)
         THEN /\ log' = Append(log, <<"WARNING", "Skipping item due to missing fields">>)
              /\ edifact' = edifact \o ItemLines(index, item)
              /\ total_weight' = total_weight
              /\ index' = index + 1
              /\ pc' = IF index = Len(data["items"].val) THEN "finalize" ELSE "items"
         ELSE IF ItemRaises(item)
         THEN \* the per-item MEA of line 56 is appended before line 57 raises
              /\ edifact' = edifact \o <<LIN(index, item), IMD(item), QTY(item),
                                         MEA(item.weight)>>
              /\ pc' = "raised"
              /\ UNCHANGED <<log, total_weight, index>>
         ELSE /\ edifact' = edifact \o ItemLines(index, item)
              /\ total_weight' = IF "weight" \in DOMAIN item
                                 THEN total_weight + WeightContribution(item)
                                 ELSE total_weight
              /\ index' = index + 1
              /\ pc' = IF index = Len(data["items"].val) THEN "finalize" ELSE "items"
              /\ log' = log
    /\ UNCHANGED <<data, p, result, file>>

SegmentCount_all(lines) == Len(lines)

\* line 63: segment_count = len(edifact) - 1
SegmentCount(lines) == Len(lines) - 1

\* lines 61-64: the aggregate MEA, then UNT with the segment count
Finalize ==
    /\ pc = "finalize"
    /\ LET withTotal == Append(edifact, MEA(Format2f(total_weight))) IN
         edifact' = Append(withTotal,
                           UNT(SegmentCount(withTotal), data["message_ref"].val))
    /\ pc' = "write"
    /\ UNCHANGED <<data, p, index, total_weight, result, file, log>>

\* lines 66-71: join, write the file, return the message
Write ==
    /\ pc = "write"
    /\ file' = Join(edifact)
    /\ result' = Join(edifact)
    /\ log' = Append(log, <<"INFO", "DISADV message generated and saved">>)
    /\ pc' = "returned"
    /\ UNCHANGED <<data, edifact, p, index, total_weight>>

Next == Validate \/ Header \/ PartyStep \/ Transport \/ ItemStep \/ Finalize \/ Write

Spec == Init /\ [][Next]_vars

(* ------------------------- reading the output -------------------------- *)

HasNewline(t) == \E k \in 1..Len(t) : t[k] = "\n"

FirstNewline(t) == CHOOSE k \in 1..Len(t) : t[k] = "\n" /\ \A j \in 1..(k - 1) : t[j] # "\n"

RECURSIVE SplitLines(_)
SplitLines(t) ==
    IF ~HasNewline(t) THEN <<t>>
    ELSE <<SubSeq(t, 1, FirstNewline(t) - 1)>>
         \o SplitLines(SubSeq(t, FirstNewline(t) + 1, Len(t)))

Tag(line) == line[1]

\* the characters of a line between its tag and the first token `stop`
FirstField(line, stop) ==
    LET k == CHOOSE k \in 2..Len(line) :
                 line[k] = stop /\ \A j \in 2..(k - 1) : line[j] # stop
    IN SubSeq(line, 2, k - 1)

Tags(lines) == [k \in 1..Len(lines) |-> Tag(lines[k])]

IsNAD(line) == Tag(line) = "NAD+"

IsLIN(line) == Tag(line) = "LIN+"

IsIMD(line) == Tag(line) = "IMD+F++:::"

IsQTY(line) == Tag(line) = "QTY+12:"

IsMEA(line) == Tag(line) = "MEA+WT+AAA:"

IsGIN(line) == Tag(line) = "GIN+BJ+"

\* generate_disadv returned a message
Produced == pc = "returned" /\ result # <<>>

OutLines == SplitLines(result)

LastLine == OutLines[Len(OutLines)]

UNTCount == DigitsValue(FirstField(LastLine, "+"))

Items == data["items"].val

Parties == data["parties"].val

Complete(item) == {"product_code", "description", "quantity"} \subseteq DOMAIN item

(* ------------------------------- claims -------------------------------- *)

MissingOrEmpty(f) == f \notin DOMAIN data \/ data[f].val = <<>>

\* C1: a record in which message_ref, shipment_number, parties or items is
\* absent or empty makes generate_disadv return "", with no segment emitted
\* and the output file never written.
C1_FailedCompilationLeavesNothing ==
    (\E f \in RequiredKeys : MissingOrEmpty(f)) =>
        /\ edifact = <<>>
        /\ file = NoFile
        /\ pc \in {"validate", "returned"}
        /\ (pc = "returned" => result = <<>>)

C1_Witness ==
    /\ pc = "returned"
    /\ result = <<>>
    /\ RequiredKeys \subseteq DOMAIN data
    /\ data["items"] = PyList(<<>>)
    /\ \A f \in RequiredKeys \ {"items"} : ~MissingOrEmpty(f)

\* C2: every message produced starts with the UNA line and ends with UNT,
\* and the count in UNT is the number of lines from UNH through the aggregate
\* MEA, that is every line but UNA and UNT.
C2_UntCountsUnhThroughMea ==
    Produced =>
        /\ OutLines[1] = UNA
        /\ Tag(OutLines[2]) = "UNH+"
        /\ IsMEA(OutLines[Len(OutLines) - 1])
        /\ Tag(LastLine) = "UNT+"
        /\ UNTCount = Len(OutLines) - 2
        /\ file = result

C2_Witness ==
    /\ Produced
    /\ \E k \in 1..Len(Parties) : ~({"qualifier", "id"} \subseteq DOMAIN Parties[k])
    /\ \E k \in 1..Len(Items) : ~Complete(Items[k])
    /\ \E k \in 1..Len(OutLines) : Tag(OutLines[k]) = "TDT+20+"
    /\ \E k \in 1..Len(OutLines) : IsGIN(OutLines[k])

BGMAt == CHOOSE k \in 1..Len(OutLines) : Tag(OutLines[k]) = "BGM+351+"

\* C3 as stated: the count in UNT is the number of segments from BGM through
\* the aggregate MEA, the UNH header left out.
C3_UntExcludesUnh ==
    Produced => UNTCount = Cardinality(BGMAt..(Len(OutLines) - 1))

\* C3 amended: the count in UNT is one more than the number of segments from
\* BGM through the aggregate MEA: it counts the UNH header too.
C3_UntIncludesUnh ==
    Produced => UNTCount = Cardinality(BGMAt..(Len(OutLines) - 1)) + 1

C3_Witness ==
    /\ Produced
    /\ Len(Items) = 2
    /\ \A k \in 1..2 : Complete(Items[k])
    /\ UNTCount > Cardinality(BGMAt..(Len(OutLines) - 1))

LINNumbers ==
    LET lins == SelectSeq(OutLines, IsLIN)
    IN [k \in 1..Len(lins) |-> DigitsValue(FirstField(lins[k], "++"))]

\* C4: the LIN numbers of a produced message are 1, 2, ..., k without gaps,
\* a skipped item consuming no number.
C4_LinNumbersHaveNoGaps ==
    Produced => LINNumbers = [k \in 1..Len(LINNumbers) |-> k]

RECURSIVE ExpectedTotal(_, _)
ExpectedTotal(items, j) ==
    IF j = 0 THEN 0
    ELSE ExpectedTotal(items, j - 1)
         + (IF Complete(items[j]) /\ "weight" \in DOMAIN items[j]
            THEN FloatValue(items[j].weight) * DigitsValue(items[j].quantity)
            ELSE 0)

TrailingWeight == FirstField(OutLines[Len(OutLines) - 1], ":KG'")

SkippingStep ==
    /\ pc = "items"
    /\ index <= Len(Items)
    /\ ~Complete(Items[index])

\* C6: an item lacking product_code, description or quantity adds no segment
\* and nothing to the total, whatever weight or vin it declares, and the loop
\* goes on to the next item; so a produced message holds one LIN, IMD and QTY
\* per complete item, and per-item MEA and GIN only of complete items.
C6_SkippedItemEmitsNothing ==
    /\ [][SkippingStep =>
            /\ edifact' = edifact
            /\ total_weight' = total_weight
            /\ index' = index + 1
            /\ pc' = IF index = Len(Items) THEN "finalize" ELSE "items"]_vars
    /\ [](Produced =>
            LET done == {k \in 1..Len(Items) : Complete(Items[k])} IN
            /\ Len(SelectSeq(OutLines, IsLIN)) = Cardinality(done)
            /\ Len(SelectSeq(OutLines, IsIMD)) = Cardinality(done)
            /\ Len(SelectSeq(OutLines, IsQTY)) = Cardinality(done)
            /\ Len(SelectSeq(OutLines, IsMEA)) =
                   Cardinality({k \in done : "weight" \in DOMAIN Items[k]}) + 1
            /\ Len(SelectSeq(OutLines, IsGIN)) =
                   Cardinality({k \in done : "vin" \in DOMAIN Items[k]}))

C6_Witness ==
    /\ pc = "items"
    /\ index = 2
    /\ ~Complete(Items[1])
    /\ {"weight", "vin"} \subseteq DOMAIN Items[1]
    /\ SelectSeq(edifact, IsGIN) = <<>>
    /\ total_weight = 0

\* C7: once validate_data has passed, no step of generate_disadv raises.
C7_OnlyValidationAborts == pc # "raised"

RECURSIVE ExpectedNADs(_, _)
ExpectedNADs(parties, j) ==
    IF j = 0 THEN <<>>
    ELSE ExpectedNADs(parties, j - 1)
         \o (IF {"qualifier", "id"} \subseteq DOMAIN parties[j]
             THEN << <<"NAD+">> \o parties[j].qualifier \o <<"+">>
                         \o parties[j].id \o <<"::91'">> >>
             ELSE <<>>)

\* C8: the NAD lines are exactly the parties holding both qualifier and id,
\* in input order; a party missing either adds no line and the loop goes on
\* to the later parties, the transport and the items.
C8_NadLinesAreTheValidParties ==
    /\ pc = "parties" =>
           SelectSeq(edifact, IsNAD) = ExpectedNADs(Parties, p - 1)
    /\ pc \in {"transport", "items", "finalize", "write", "raised"} \/ Produced =>
           /\ p = Len(Parties) + 1
           /\ SelectSeq(edifact, IsNAD) = ExpectedNADs(Parties, Len(Parties))
    /\ Produced =>
           SelectSeq(OutLines, IsNAD) = ExpectedNADs(Parties, Len(Parties))

C8_Witness ==
    /\ Produced
    /\ Parties = <<PartyNoId, PartySU>>
    /\ SelectSeq(OutLines, IsNAD) = << <<"NAD+", "S", "U", "+", "2", "::91'">> >>
    /\ \E k \in 1..Len(OutLines) : IsLIN(OutLines[k])

CheckOrder == <<"message_ref", "shipment_number", "parties", "items">>

Failed == pc = "returned" /\ result = <<>>

\* C9: validate_data fails naming the first of message_ref, shipment_number,
\* parties, items that is absent or empty; the check that items is a
\* non-empty list is made only when none of the four is; the record is never
\* modified.
C9_ValidationNamesFirstMissingField ==
    /\ [](Failed =>
            \/ \E k \in 1..4 :
                 /\ log[Len(log)] = <<"ERROR", "Missing required field: ", CheckOrder[k]>>
                 /\ MissingOrEmpty(CheckOrder[k])
                 /\ \A j \in 1..(k - 1) : ~MissingOrEmpty(CheckOrder[j])
            \/ /\ log[Len(log)] = <<"ERROR", "DISADV must contain at least one item.">>
               /\ \A k \in 1..4 : ~MissingOrEmpty(CheckOrder[k])
               /\ data["items"].type # "list")
    /\ [](pc # "validate" /\ ~Failed =>
            /\ \A k \in 1..4 : ~MissingOrEmpty(CheckOrder[k])
            /\ data["items"].type = "list")
    /\ [][data' = data]_vars

C9_Witness ==
    /\ Failed
    /\ log[Len(log)] = <<"ERROR", "Missing required field: ", "parties">>
    /\ "parties" \notin DOMAIN data
    /\ "items" \notin DOMAIN data

\* the state after reading tag t in state s of the segment order: 4 is the
\* NAD zone, 5 after TDT, 6 to 10 inside an item block, 0 a rejection
OrderStep(s, t) ==
    CASE s = 1 /\ t = "UNA:+.? '" -> 2
      [] s = 2 /\ t = "UNH+" -> 3
      [] s = 3 /\ t = "BGM+351+" -> 4
      [] s = 4 /\ t = "DTM+137:" -> 5
      [] s = 5 /\ t = "NAD+" -> 5
      [] s = 5 /\ t = "TDT+20+" -> 6
      [] s \in {5, 6, 9, 10, 11} /\ t = "LIN+" -> 7
      [] s = 7 /\ t = "IMD+F++:::" -> 8
      [] s = 8 /\ t = "QTY+12:" -> 9
      [] s = 9 /\ t = "MEA+WT+AAA:" -> 10
      [] s \in {9, 10} /\ t = "GIN+BJ+" -> 11
      [] OTHER -> 0

RECURSIVE OrderRun(_, _)
OrderRun(tags, k) == IF k = 0 THEN 1 ELSE OrderStep(OrderRun(tags, k - 1), tags[k])

\* C10: a produced message is UNA, UNH, BGM, DTM, the NAD lines, at most one
\* TDT, the item blocks (LIN, IMD, QTY, optional MEA, optional GIN) in input
\* order, one aggregate MEA and one UNT, with nothing after UNT.
C10_SegmentOrder ==
    Produced =>
        /\ OrderRun(Tags(OutLines), Len(OutLines) - 2) \in {5, 6, 9, 10, 11}
        /\ IsMEA(OutLines[Len(OutLines) - 1])
        /\ Tag(LastLine) = "UNT+"
        /\ \A k \in 1..(Len(LINNumbers) - 1) : LINNumbers[k] < LINNumbers[k + 1]
        /\ \A k \in 1..Len(LINNumbers) :
               /\ LINNumbers[k] \in 1..Len(Items)
               /\ Complete(Items[LINNumbers[k]])

C10_Witness ==
    /\ Produced
    /\ Tags(OutLines) = <<"UNA:+.? '", "UNH+", "BGM+351+", "DTM+137:", "NAD+", "TDT+20+",
                          "LIN+", "IMD+F++:::", "QTY+12:", "MEA+WT+AAA:",
                          "LIN+", "IMD+F++:::", "QTY+12:", "MEA+WT+AAA:", "GIN+BJ+",
                          "MEA+WT+AAA:", "UNT+">>

====
